---- MODULE Spec2Model ----
(***************************************************************************)
(* Model of the Athena query executor (query.py): query preparation        *)
(* (load_query, substitute_params, validate_read_only), the submit / poll  *)
(* / fetch protocol against the execution service, and main's error        *)
(* handling.  Text is modelled as a sequence of one-character strings so   *)
(* that splitting, stripping, upper-casing and substring search are        *)
(* computed as the code computes them.                                     *)
(***************************************************************************)
EXTENDS Integers, Sequences, FiniteSets, TLC

VARIABLES
    QUERY,          \* module constant QUERY: inline SQL or a .sql path
    PARAMS,         \* module constant PARAMS: placeholder name -> value
    parts,          \* the pieces the input QUERY was composed of
    file,           \* Set(text of the file QUERY names), Unset when absent
    pc,             \* position of main
    final_query,    \* main's final_query
    raised,         \* the exception that ended the run, NoExc when none
    athena,         \* TRUE once session.client("athena") returned
    execution_id,   \* main's execution_id
    execution_info, \* main's execution_info
    columns,        \* fetch_results: columns
    rows,           \* fetch_results: rows
    next_token,     \* fetch_results: next_token
    first_page,     \* fetch_results: first_page
    table,          \* main's (columns, rows) once fetch_results returned
    calls,          \* every call made to a collaborator, in order
    stderr,         \* diagnostics printed to sys.stderr, in order
    report,         \* content of the output file
    exit_code       \* process exit status

vars == <<QUERY, PARAMS, parts, file, pc, final_query, raised, athena,
          execution_id, execution_info, columns, rows, next_token,
          first_page, table, calls, stderr, report, exit_code>>

\* a Python name not bound yet / a value that is absent, and a present value
Unset == <<>>
Set(x) == <<x>>
IsSet(o) == o # <<>>
Val(o) == o[1]

\* Python's None where the other values are strings
None == "None"

\* exceptions: type and what the message carries
Exc(type, arg) == [type |-> type, arg |-> arg]
NoExc == Exc("None", <<>>)

(***************************************************************************)
(* Text helpers (Python str methods used by the code)                      *)
(***************************************************************************)
Min(S) == CHOOSE m \in S : \A n \in S : m <= n
Max(S) == CHOOSE m \in S : \A n \in S : m >= n

Lower == <<"a","b","c","d","e","f","g","h","i","j","k","l","m",
           "n","o","p","q","r","s","t","u","v","w","x","y","z">>
Caps  == <<"A","B","C","D","E","F","G","H","I","J","K","L","M",
           "N","O","P","Q","R","S","T","U","V","W","X","Y","Z">>
Digits == {"0","1","2","3","4","5","6","7","8","9"}

Range(s) == {s[i] : i \in DOMAIN s}

\* str.upper() on one character
UpperChar(c) ==
    IF c \in Range(Lower) THEN Caps[CHOOSE i \in DOMAIN Lower : Lower[i] = c]
    ELSE c

\* mutant: the normalized text keeps its letter case
upper_Missing(s) == s

\* str.upper()
upper(s) == [i \in DOMAIN s |-> UpperChar(s[i])]

\* characters str.strip() removes
IsSpace(c) == c \in {" ", "\t", "\n", "\r"}

\* str.strip()
strip(s) ==
    LET keep == {i \in DOMAIN s : ~IsSpace(s[i])}
    IN  IF keep = {} THEN <<>> ELSE SubSeq(s, Min(keep), Max(keep))

\* pat occurs in s at position i
OccursAt(s, pat, i) ==
    /\ i >= 1
    /\ i + Len(pat) - 1 <= Len(s)
    /\ SubSeq(s, i, i + Len(pat) - 1) = pat

\* str.find(), 1-based, 0 when absent
find(s, pat) ==
    LET hits == {i \in 1..Len(s) : OccursAt(s, pat, i)}
    IN  IF hits = {} THEN 0 ELSE Min(hits)

\* the `in` operator on strings
contains(s, pat) == \E i \in 1..(Len(s) + 1) : OccursAt(s, pat, i)

\* str.endswith()
endswith(s, suffix) ==
    /\ Len(suffix) <= Len(s)
    /\ SubSeq(s, Len(s) - Len(suffix) + 1, Len(s)) = suffix

\* str.split(sep): the pieces between the occurrences of sep
RECURSIVE split(_, _)
split(s, sep) ==
    LET i == find(s, sep)
    IN  IF i = 0 THEN <<s>>
        ELSE <<SubSeq(s, 1, i - 1)>> \o split(SubSeq(s, i + Len(sep), Len(s)), sep)

\* sep.join(list)
RECURSIVE join(_, _)
join(sep, list) ==
    IF list = <<>> THEN <<>>
    ELSE IF Len(list) = 1 THEN list[1]
    ELSE list[1] \o sep \o join(sep, Tail(list))

\* concatenation of a sequence of texts
RECURSIVE Flatten(_)
Flatten(list) == IF list = <<>> THEN <<>> ELSE list[1] \o Flatten(Tail(list))

(***************************************************************************)
(* load_query                                                              *)
(***************************************************************************)
SqlSuffix == <<".", "s", "q", "l">>

\* load_query(query_input), `text` being the content of the file the path
\* names (None when it does not exist): the text returned or the exception raised
load_query(query_input, text) ==
    IF endswith(strip(query_input), SqlSuffix)
    THEN IF ~IsSet(text)
         THEN [exc |-> Exc("FileNotFoundError", strip(query_input)), text |-> <<>>]
         ELSE [exc |-> NoExc, text |-> Val(text)]
    ELSE [exc |-> NoExc, text |-> query_input]

(***************************************************************************)
(* substitute_params: string.Template(query).safe_substitute(params)       *)
(***************************************************************************)
IsIdStart(c) == c = "_" \/ c \in Range(Lower) \/ c \in Range(Caps)
IsIdChar(c) == IsIdStart(c) \/ c \in Digits

\* last position of the identifier starting at i (i - 1 when none starts there)
RECURSIVE IdEnd(_, _)
IdEnd(s, i) ==
    IF i <= Len(s) /\ IsIdChar(s[i]) THEN IdEnd(s, i + 1) ELSE i - 1

\* mutant: a placeholder without a key is replaced by nothing
Convert_Missing(params, name, matched) ==
    IF name \in DOMAIN params THEN params[name] ELSE <<>>

\* safe_substitute's convert(): the value of a known key, else the match itself
Convert(params, name, matched) ==
    IF name \in DOMAIN params THEN params[name] ELSE matched

\* the scan of Template.pattern from position i: $$ | $id | ${id} | $
RECURSIVE Scan(_, _, _)
Scan(s, i, params) ==
    IF i > Len(s) THEN <<>>
    ELSE IF s[i] # "$" THEN <<s[i]>> \o Scan(s, i + 1, params)
    ELSE IF i < Len(s) /\ s[i + 1] = "$"
         THEN <<"$">> \o Scan(s, i + 2, params)
    ELSE IF i < Len(s) /\ IsIdStart(s[i + 1])
         THEN LET j == IdEnd(s, i + 1)
              IN  Convert(params, SubSeq(s, i + 1, j), SubSeq(s, i, j))
                      \o Scan(s, j + 1, params)
    ELSE IF /\ i + 1 < Len(s) /\ s[i + 1] = "{" /\ IsIdStart(s[i + 2])
            /\ IdEnd(s, i + 2) < Len(s) /\ s[IdEnd(s, i + 2) + 1] = "}"
         THEN LET j == IdEnd(s, i + 2)
              IN  Convert(params, SubSeq(s, i + 2, j), SubSeq(s, i, j + 1))
                      \o Scan(s, j + 2, params)
    ELSE <<"$">> \o Scan(s, i + 1, params)

substitute_params(query, params) == Scan(query, 1, params)

(***************************************************************************)
(* validate_read_only                                                      *)
(***************************************************************************)
write_keywords == <<
    <<"I","N","S","E","R","T"," ">>,
    <<"U","P","D","A","T","E"," ">>,
    <<"D","E","L","E","T","E"," ">>,
    <<"D","R","O","P"," ">>,
    <<"C","R","E","A","T","E"," ">>,
    <<"A","L","T","E","R"," ">>,
    <<"T","R","U","N","C","A","T","E"," ">>,
    <<"M","E","R","G","E"," ">>,
    <<"U","N","L","O","A","D"," ">> >>

\* mutant: another comment marker is cut off
CommentMarker_Hash == <<"#">>

CommentMarker == <<"-", "-">>

\* lines 76-80: each line cut at its first "--", stripped, empty ones dropped
RECURSIVE StripLines(_)
StripLines(list) ==
    IF list = <<>> THEN <<>>
    ELSE LET line == strip(split(list[1], CommentMarker)[1])
         IN  (IF line # <<>> THEN <<line>> ELSE <<>>) \o StripLines(Tail(list))

\* line 81
Normalize(query) == upper(join(<<" ">>, StripLines(split(query, <<"\n">>))))

\* mutant: the loop goes on after a match, the last keyword found is named
validate_read_only_Last(query) ==
    LET normalized == Normalize(query)
        found == {k \in DOMAIN write_keywords : contains(normalized, write_keywords[k])}
    IN  IF found = {} THEN NoExc
        ELSE Exc("ValueError", strip(write_keywords[Max(found)]))

\* lines 96-98: the ValueError raised for the first keyword of the list found
\* in the normalized text, or NoExc when the loop ends without raising
validate_read_only(query) ==
    LET normalized == Normalize(query)
        found == {k \in DOMAIN write_keywords : contains(normalized, write_keywords[k])}
    IN  IF found = {} THEN NoExc
        ELSE Exc("ValueError", strip(write_keywords[Min(found)]))

(***************************************************************************)
(* Bounds of the model and the values the collaborators may produce        *)
(***************************************************************************)
MaxPolls == 2      \* non-terminal statuses the service reports in one run
MaxPages == 2      \* pages the service serves in one run

Handles == {"e1", "e2"}
NonTerminalStates == {"QUEUED", "RUNNING", "PAUSED"}
TerminalFailures == {"FAILED", "CANCELLED"}
Reasons == {Unset, Set(""), Set("r1")}
Statistics == [DataScannedInBytes |-> 0, TotalExecutionTimeInMillis |-> 0]

\* response["QueryExecution"] of get_query_execution
Status(id, state, reason) ==
    [QueryExecutionId |-> id, State |-> state, StateChangeReason |-> reason,
     Statistics |-> Statistics]

\* the result set of the modelled query: columns a, bb; a cell is Set(text),
\* or Unset when the service sends no VarCharValue
Labels == << <<"a">>, <<"b", "b">> >>
HeaderRow == [j \in DOMAIN Labels |-> Set(Labels[j])]
Row1 == <<Set(<<"1">>), Unset>>
Row2 == <<Set(<<"3", "3", "3">>), Set(<<"4">>)>>
\* the data rows one page may hold
RowSeqs == {<<>>, <<Row1>>, <<Row2, Row1>>}
\* the token that follows page n: every page has its own
MoreToken(n) == "t" \o ToString(n)
EndTokens == {None, ""}

\* response of get_query_results
Page(data, token) == [ColumnInfo |-> Labels, Rows |-> data, NextToken |-> token]

\* one entry of the call log
Call(op, arg, out, res) == [op |-> op, arg |-> arg, out |-> out, res |-> res]
CallsOf(op) == {i \in DOMAIN calls : calls[i].op = op}
ServiceOps == {"submit", "getStatus", "fetchPage"}

(***************************************************************************)
(* wait_for_query                                                          *)
(***************************************************************************)
\* mutant: returns as soon as the state is no longer RUNNING
poll_outcome_NotRunning(state) ==
    IF state \in {"FAILED", "CANCELLED"} THEN "raise"
    ELSE IF state # "RUNNING" THEN "return"
    ELSE "sleep"

\* mutant: CANCELLED is not taken for a final state
poll_outcome_CancelledPolls(state) ==
    IF state = "SUCCEEDED" THEN "return"
    ELSE IF state = "FAILED" THEN "raise"
    ELSE "sleep"

\* lines 123-130: what one iteration does with the state it read
poll_outcome(state) ==
    IF state = "SUCCEEDED" THEN "return"
    ELSE IF state \in {"FAILED", "CANCELLED"} THEN "raise"
    ELSE "sleep"

\* mutant: the reason of the service is not read
reason_of_Dropped(status) == "Unknown"

\* line 126: Status.get("StateChangeReason", "Unknown")
reason_of(status) ==
    IF IsSet(status.StateChangeReason) THEN Val(status.StateChangeReason)
    ELSE "Unknown"

\* line 127: RuntimeError(f"Query {state}: {reason}")
wait_error(status) == Exc("RuntimeError", <<status.State, reason_of(status)>>)

(***************************************************************************)
(* fetch_results                                                           *)
(***************************************************************************)
\* mutant: the test of line 161 inverted
Truthy_Inverted(token) == ~(token # None /\ token # "")

\* truth value of a token (lines 142, 161)
Truthy(token) == token # None /\ token # ""

\* mutant: the token is never passed on
fetch_kwargs_NoToken(id, token) == <<id>>

\* lines 141-143: the arguments of get_query_results
fetch_kwargs(id, token) == IF Truthy(token) THEN <<id, token>> ELSE <<id>>

\* mutant: the leading row is dropped on every page
data_rows_AlwaysSkip(first, page_rows) == SubSeq(page_rows, 2, Len(page_rows))

\* lines 149-155: the rows of a page that are data
data_rows(first, page_rows) ==
    IF first THEN SubSeq(page_rows, 2, Len(page_rows)) ELSE page_rows

\* line 158: col.get("VarCharValue", "")
cell_value(col) == IF IsSet(col) THEN Val(col) ELSE <<>>

\* mutant: cells without a value are left out of the row
appended_rows_SkipNull(data) ==
    [i \in DOMAIN data |->
        LET present == SelectSeq(data[i], IsSet)
        IN  [j \in DOMAIN present |-> Val(present[j])]]

\* lines 157-158: the rows appended for one page
appended_rows(data) ==
    [i \in DOMAIN data |-> [j \in DOMAIN data[i] |-> cell_value(data[i][j])]]

\* lines 149-150: columns after a page
page_columns(first, old, page) == IF first THEN page.ColumnInfo ELSE old

(***************************************************************************)
(* format_results and the output file                                      *)
(***************************************************************************)
DATABASE == "telemetry"
WidthCap == 200
NoResults == <<"(","n","o"," ","r","e","s","u","l","t","s",")">>
ColumnSep == <<" ", "|", " ">>

\* str.ljust(width)
ljust(s, width) ==
    IF Len(s) >= width THEN s ELSE s \o [i \in 1..(width - Len(s)) |-> " "]

\* s[:n]
prefix(s, n) == SubSeq(s, 1, IF n < Len(s) THEN n ELSE Len(s))

\* lines 193-199: the width of column i
column_width(cols, rws, i) ==
    LET lens == {Len(cols[i])} \cup {Len(rws[r][i]) : r \in {r \in DOMAIN rws : i <= Len(rws[r])}}
    IN  IF Max(lens) < WidthCap THEN Max(lens) ELSE WidthCap

\* lines 202-209: header, separator and one line per row
table_lines(cols, rws) ==
    LET w(i) == column_width(cols, rws, i)
        header == join(ColumnSep, [i \in DOMAIN cols |-> ljust(cols[i], w(i))])
        line(row) == join(ColumnSep, [i \in DOMAIN row |-> ljust(prefix(row[i], w(i)), w(i))])
    IN  <<header, [i \in DOMAIN header |-> "-"]>> \o [r \in DOMAIN rws |-> line(rws[r])]

\* format_results: the header block is kept as its fields (the timestamp is
\* left out), the results section as its lines; exc is the IndexError of
\* line 196 when a row has more cells than there are columns
format_results(cols, rws, query, info) ==
    LET head == [database |-> DATABASE,
                 execution |-> info.QueryExecutionId,
                 scanned |-> info.Statistics.DataScannedInBytes,
                 time |-> info.Statistics.TotalExecutionTimeInMillis,
                 query |-> strip(query),
                 count |-> Len(rws)]
    IN  IF rws = <<>> THEN [exc |-> NoExc, head |-> head, body |-> <<NoResults>>]
        ELSE IF \E r \in DOMAIN rws : Len(rws[r]) > Len(cols)
        THEN [exc |-> Exc("IndexError", <<>>), head |-> head, body |-> <<>>]
        ELSE [exc |-> NoExc, head |-> head, body |-> table_lines(cols, rws)]

(***************************************************************************)
(* main                                                                    *)
(***************************************************************************)
\* mutant: the except clause prints and exits with status 0
Abort_ExitZero(exc, lines) ==
    /\ raised' = exc
    /\ stderr' = stderr \o lines
    /\ exit_code' = Set(0)
    /\ pc' = "exited"

\* sys.exit(1) in an except clause that printed `lines` to sys.stderr
Abort(exc, lines) ==
    /\ raised' = exc
    /\ stderr' = stderr \o lines
    /\ exit_code' = Set(1)
    /\ pc' = "exited"

\* an exception no except clause of main names: the interpreter prints the
\* traceback to sys.stderr and exits with status 1
Uncaught(exc) == Abort(exc, << <<"Traceback", exc>> >>)

\* lines 259-263
ClientErrorLines(exc) == << <<"ERROR: AWS API error", exc>>, <<"Code", exc>>, <<"Message", exc>> >>

\* mutant: a failed call is reported and made again
ServiceFailure_Retry(op, arg) ==
    \E out \in {"ClientError", "OtherError"} :
        /\ calls' = Append(calls, Call(op, arg, out, <<>>))
        /\ stderr' = stderr \o ClientErrorLines(Exc(out, <<op>>))
        /\ UNCHANGED <<raised, exit_code, pc>>

\* the failures of a service call and what main does with them (lines 259-266)
ServiceFailure(op, arg) ==
    \E out \in {"ClientError", "OtherError"} :
        /\ calls' = Append(calls, Call(op, arg, out, <<>>))
        /\ IF out = "ClientError"
           THEN Abort(Exc("ClientError", <<op>>), ClientErrorLines(Exc("ClientError", <<op>>)))
           ELSE Uncaught(Exc("OtherError", <<op>>))

\* mutant: the ValueError is reported but the run goes on
Prepare_NoExit ==
    /\ pc = "prepare"
    /\ LET loaded == load_query(QUERY, file)
           substituted == substitute_params(loaded.text, PARAMS)
           verdict == validate_read_only(substituted)
       IN  IF loaded.exc # NoExc
           THEN /\ Abort(loaded.exc, << <<"ERROR", loaded.exc>> >>)
                /\ UNCHANGED final_query
           ELSE /\ final_query' = Set(substituted)
                /\ pc' = "session"
                /\ UNCHANGED exit_code
                /\ IF verdict # NoExc
                   THEN /\ raised' = verdict
                        /\ stderr' = stderr \o << <<"BLOCKED", verdict>> >>
                   ELSE UNCHANGED <<raised, stderr>>
    /\ UNCHANGED <<QUERY, PARAMS, parts, file, athena, execution_id,
                   execution_info, columns, rows, next_token, first_page,
                   table, calls, report>>

\* mutant: the text is validated before the parameters are substituted
Prepare_ValidateRaw ==
    /\ pc = "prepare"
    /\ LET loaded == load_query(QUERY, file)
           substituted == substitute_params(loaded.text, PARAMS)
           verdict == validate_read_only(loaded.text)
       IN  IF loaded.exc # NoExc
           THEN /\ Abort(loaded.exc, << <<"ERROR", loaded.exc>> >>)
                /\ UNCHANGED final_query
           ELSE /\ final_query' = Set(substituted)
                /\ IF verdict # NoExc
                   THEN Abort(verdict, << <<"BLOCKED", verdict>> >>)
                   ELSE /\ pc' = "session"
                        /\ UNCHANGED <<raised, stderr, exit_code>>
    /\ UNCHANGED <<QUERY, PARAMS, parts, file, athena, execution_id,
                   execution_info, columns, rows, next_token, first_page,
                   table, calls, report>>

\* lines 219-228: load, substitute, validate
Prepare ==
    /\ pc = "prepare"
    /\ LET loaded == load_query(QUERY, file)
           substituted == substitute_params(loaded.text, PARAMS)
           verdict == validate_read_only(substituted)
       IN  IF loaded.exc # NoExc
           THEN /\ Abort(loaded.exc, << <<"ERROR", loaded.exc>> >>)
                /\ UNCHANGED final_query
           ELSE /\ final_query' = Set(substituted)
                /\ IF verdict # NoExc
                   THEN Abort(verdict, << <<"BLOCKED", verdict>> >>)
                   ELSE /\ pc' = "session"
                        /\ UNCHANGED <<raised, stderr, exit_code>>
    /\ UNCHANGED <<QUERY, PARAMS, parts, file, athena, execution_id,
                   execution_info, columns, rows, next_token, first_page,
                   table, calls, report>>

\* lines 235-245: the session and the client
GetSession ==
    /\ pc = "session"
    /\ \E out \in {"ok", "NoCredentialsError", "RuntimeError"} :
        /\ calls' = Append(calls, Call("session", <<>>, out, <<>>))
        /\ IF out = "ok"
           THEN /\ athena' = TRUE
                /\ pc' = "submit"
                /\ UNCHANGED <<raised, stderr, exit_code>>
           ELSE /\ UNCHANGED athena
                /\ IF out = "NoCredentialsError"
                   THEN Abort(Exc(out, <<>>),
                              << <<"ERROR: No AWS credentials found.", Exc(out, <<>>)>>,
                                 <<"  Run 'aws sso login'", Exc(out, <<>>)>> >>)
                   ELSE Abort(Exc(out, <<>>), << <<"ERROR", Exc(out, <<>>)>> >>)
    /\ UNCHANGED <<QUERY, PARAMS, parts, file, final_query, execution_id,
                   execution_info, columns, rows, next_token, first_page,
                   table, report>>

\* lines 248-250 and execute_query (106-114)
Submit ==
    /\ pc = "submit"
    /\ \/ \E id \in Handles :
            /\ calls' = Append(calls, Call("submit", <<Val(final_query)>>, "ok", <<id>>))
            /\ execution_id' = Set(id)
            /\ pc' = "poll"
            /\ UNCHANGED <<raised, stderr, exit_code>>
       \/ /\ ServiceFailure("submit", <<Val(final_query)>>)
          /\ UNCHANGED execution_id
    /\ UNCHANGED <<QUERY, PARAMS, parts, file, final_query, athena,
                   execution_info, columns, rows, next_token, first_page,
                   table, report>>

\* the statuses the service may report next
NextStatuses ==
    {Status(Val(execution_id), "SUCCEEDED", Unset)}
    \cup {Status(Val(execution_id), st, r) : st \in TerminalFailures, r \in Reasons}
    \cup (IF Cardinality(CallsOf("sleep")) < MaxPolls
          THEN {Status(Val(execution_id), st, Unset) : st \in NonTerminalStates}
          ELSE {})

\* wait_for_query, one iteration up to its return, raise or sleep (119-129),
\* and main's handling of what it raises (264-266)
Poll ==
    /\ pc = "poll"
    /\ \/ \E status \in NextStatuses :
            /\ calls' = Append(calls, Call("getStatus", <<Val(execution_id)>>, "ok", <<status>>))
            /\ IF poll_outcome(status.State) = "return"
               THEN /\ execution_info' = Set(status)
                    /\ pc' = "fetch"
                    /\ UNCHANGED <<raised, stderr, exit_code>>
               ELSE IF poll_outcome(status.State) = "raise"
               THEN /\ Abort(wait_error(status), << <<"ERROR", wait_error(status)>> >>)
                    /\ UNCHANGED execution_info
               ELSE /\ pc' = "sleep"
                    /\ UNCHANGED <<raised, stderr, exit_code, execution_info>>
       \/ /\ ServiceFailure("getStatus", <<Val(execution_id)>>)
          /\ UNCHANGED execution_info
    /\ UNCHANGED <<QUERY, PARAMS, parts, file, final_query, athena, execution_id,
                   columns, rows, next_token, first_page, table, report>>

\* mutant: the waiter gives up after its first sleep
Sleep_Deadline ==
    /\ pc = "sleep"
    /\ calls' = Append(calls, Call("sleep", <<>>, "ok", <<>>))
    /\ IF Cardinality(CallsOf("sleep")) >= 1
       THEN Abort(Exc("RuntimeError", <<"timeout">>),
                  << <<"ERROR", Exc("RuntimeError", <<"timeout">>)>> >>)
       ELSE /\ pc' = "poll"
            /\ UNCHANGED <<raised, stderr, exit_code>>
    /\ UNCHANGED <<QUERY, PARAMS, parts, file, final_query, athena,
                   execution_id, execution_info, columns, rows, next_token,
                   first_page, table, report>>

\* line 130: time.sleep(poll_interval)
Sleep ==
    /\ pc = "sleep"
    /\ calls' = Append(calls, Call("sleep", <<>>, "ok", <<>>))
    /\ pc' = "poll"
    /\ UNCHANGED <<QUERY, PARAMS, parts, file, final_query, raised, athena,
                   execution_id, execution_info, columns, rows, next_token,
                   first_page, table, stderr, report, exit_code>>

\* the pages the service may serve for a request: the first page (a request
\* without token) starts with the header row; the last page allowed by the
\* bound carries no further token
NextPages(kwargs) ==
    LET served == Cardinality(CallsOf("fetchPage"))
        tokens == EndTokens \cup (IF served + 1 < MaxPages THEN {MoreToken(served + 1)} ELSE {})
    IN  {Page((IF Len(kwargs) = 1 THEN <<HeaderRow>> ELSE <<>>) \o data, token) :
            data \in RowSeqs, token \in tokens}

\* fetch_results, one iteration of its loop (140-162) and its return (164)
Fetch ==
    /\ pc = "fetch"
    /\ LET kwargs == fetch_kwargs(Val(execution_id), next_token)
       IN  \/ \E page \in NextPages(kwargs) :
                /\ calls' = Append(calls, Call("fetchPage", kwargs, "ok", <<page>>))
                /\ columns' = page_columns(first_page, columns, page)
                /\ rows' = rows \o appended_rows(data_rows(first_page, page.Rows))
                /\ first_page' = FALSE
                /\ next_token' = page.NextToken
                /\ IF Truthy(page.NextToken)
                   THEN UNCHANGED <<pc, table>>
                   ELSE /\ table' = Set(<<columns', rows'>>)
                        /\ pc' = "output"
                /\ UNCHANGED <<raised, stderr, exit_code>>
           \/ /\ ServiceFailure("fetchPage", kwargs)
              /\ UNCHANGED <<columns, rows, next_token, first_page, table>>
    /\ UNCHANGED <<QUERY, PARAMS, parts, file, final_query, athena, execution_id,
                   execution_info, report>>

\* lines 269-279: format, write the file, return
Output ==
    /\ pc = "output"
    /\ LET output == format_results(Val(table)[1], Val(table)[2], Val(final_query),
                                    Val(execution_info))
       IN  IF output.exc # NoExc
           THEN /\ Uncaught(output.exc)
                /\ UNCHANGED <<report, calls>>
           ELSE /\ report' = Set([head |-> output.head, body |-> output.body])
                /\ calls' = Append(calls, Call("write", <<>>, "ok", <<>>))
                /\ exit_code' = Set(0)
                /\ pc' = "exited"
                /\ UNCHANGED <<raised, stderr>>
    /\ UNCHANGED <<QUERY, PARAMS, parts, file, final_query, athena,
                   execution_id, execution_info, columns, rows, next_token,
                   first_page, table>>

\* the state main starts in, for the input (query, params, fs)
Start(query, pieces, params, fs) ==
    /\ QUERY = query
    /\ parts = pieces
    /\ PARAMS = params
    /\ file = fs
    /\ pc = "prepare"
    /\ final_query = Unset
    /\ raised = NoExc
    /\ athena = FALSE
    /\ execution_id = Unset
    /\ execution_info = Unset
    /\ columns = <<>>
    /\ rows = <<>>
    /\ next_token = None
    /\ first_page = TRUE
    /\ table = Unset
    /\ calls = <<>>
    /\ stderr = <<>>
    /\ report = Unset
    /\ exit_code = Unset

(***************************************************************************)
(* The runs of main                                                        *)
(***************************************************************************)
Lit(text) == [kind |-> "lit", text |-> text]

SelectP == <<"s","e","l","e","c","t"," ","$","p">>
DropT == <<"D","r","o","p"," ","t">>
QSql == <<"q",".","s","q","l">>
NameP == <<"p">>

RunQueries == {SelectP, DropT, QSql}
RunParams == {<<>>, [n \in {NameP} |-> <<"x">>], [n \in {NameP} |-> DropT]}
RunFiles == {Unset, Set(SelectP)}

Init ==
    \E q \in RunQueries, p \in RunParams, f \in RunFiles :
        /\ (q # QSql => f = Unset)
        /\ Start(q, <<Lit(q)>>, p, f)

Next == Prepare \/ GetSession \/ Submit \/ Poll \/ Sleep \/ Fetch \/ Output

Spec == Init /\ [][Next]_vars

(***************************************************************************)
(* validate_read_only over composed queries                                *)
(***************************************************************************)
MaxTokens == 5     \* pieces a composed query is made of

ValidateTokens == { <<"D","r","o","p">>, <<"I","N","S","E","R","T">>,
                    <<" ">>, <<"\n">>, <<"\t">>, <<"-">>, <<"x">> }
SeqsUpTo(S, n) == UNION {[1..m -> S] : m \in 0..n}

InitValidate ==
    \E toks \in SeqsUpTo(ValidateTokens, MaxTokens) :
        Start(Flatten(toks), [i \in DOMAIN toks |-> Lit(toks[i])], <<>>, Unset)

SpecValidate == InitValidate /\ [][Prepare]_vars

(***************************************************************************)
(* substitute_params over composed templates                               *)
(***************************************************************************)
MaxParts == 4      \* pieces a composed template is made of

NameQ == <<"q">>
NameR == <<"r">>
Part(kind, text) == [kind |-> kind, text |-> text]
SubstParts == { Lit(<<"a">>), Lit(<<" ">>), Lit(<<"$">>),
                Part("named", <<"$">> \o NameP), Part("named", <<"$">> \o NameQ),
                Part("braced", <<"$", "{">> \o NameP \o <<"}">>),
                Part("named", <<"$">> \o NameR),
                Part("escape", <<"$", "$">>) }
SubstParams == { <<>>,
                 [n \in {NameP} |-> <<"x">>],
                 [n \in {NameP, NameQ} |-> IF n = NameP THEN <<"$">> \o NameQ ELSE <<"y">>] }

InitSubst ==
    \E ps \in SeqsUpTo(SubstParts, MaxParts), p \in SubstParams :
        Start(Flatten([i \in DOMAIN ps |-> ps[i].text]), ps, p, Unset)

SpecSubst == InitSubst /\ [][Prepare]_vars

(***************************************************************************)
(* format_results over result tables                                       *)
(***************************************************************************)
MaxTableRows == 2  \* data rows of a result table

\* a text of n copies of the character c
Repeat(c, n) == [i \in 1..n |-> c]

\* labels and cells on both sides of the cap of line 199
LongLabel == Repeat("c", WidthCap + 1)
LongCell == Repeat("z", WidthCap + 1)
TableLabels == {Labels, <<Labels[1], LongLabel>>}
TableCells == {Unset, Set(<<"1">>), Set(<<"3", "3", "3">>), Set(LongCell)}

\* the single page the service answers with: the header row, then the data
TablePage(labels, data) ==
    [ColumnInfo |-> labels,
     Rows |-> <<[j \in DOMAIN labels |-> Set(labels[j])]>> \o data,
     NextToken |-> None]

\* main at line 269, after one poll and one page: fetch_results has returned
\* the columns and rows of the page
InitFormat ==
    \E labels \in TableLabels,
       data \in SeqsUpTo([DOMAIN Labels -> TableCells], MaxTableRows) :
        LET page == TablePage(labels, data)
            status == Status("e1", "SUCCEEDED", Unset)
        IN  /\ QUERY = SelectP
            /\ parts = <<Lit(SelectP)>>
            /\ PARAMS = <<>>
            /\ file = Unset
            /\ pc = "output"
            /\ final_query = Set(SelectP)
            /\ raised = NoExc
            /\ athena = TRUE
            /\ execution_id = Set("e1")
            /\ execution_info = Set(status)
            /\ columns = page_columns(TRUE, <<>>, page)
            /\ rows = appended_rows(data_rows(TRUE, page.Rows))
            /\ next_token = page.NextToken
            /\ first_page = FALSE
            /\ table = Set(<<columns, rows>>)
            /\ calls = << Call("session", <<>>, "ok", <<>>),
                          Call("submit", <<SelectP>>, "ok", <<"e1">>),
                          Call("getStatus", <<"e1">>, "ok", <<status>>),
                          Call("fetchPage", fetch_kwargs("e1", None), "ok", <<page>>) >>
            /\ stderr = <<>>
            /\ report = Unset
            /\ exit_code = Unset

SpecFormat == InitFormat /\ [][Output]_vars

(***************************************************************************)
(* Properties of a run of main                                             *)
(***************************************************************************)
Exited == pc = "exited"
OkCalls(op) == {i \in CallsOf(op) : calls[i].out = "ok"}
ServiceCalls == {i \in DOMAIN calls : calls[i].op \in ServiceOps}
\* the states the service reported, in order
StatusIdx == CallsOf("getStatus")
NonTerminalSeen ==
    {i \in OkCalls("getStatus") : Val(calls[i].res).State \notin {"SUCCEEDED", "FAILED", "CANCELLED"}}

\* C2: when validate_read_only rejects the prepared query, the run ends with
\* no session or client constructed and no submit, getStatus or fetchPage call.
C2_BlockedBeforeAnyCall ==
    raised.type = "ValueError" =>
        /\ calls = <<>>
        /\ ~athena
        /\ execution_id = Unset
        /\ Exited

C2_Witness ==
    /\ Exited
    /\ raised.type = "ValueError"
    /\ PARAMS # <<>>
    /\ validate_read_only(load_query(QUERY, file).text) = NoExc

\* the keywords of the denylist found in the normalized form of a text
KeywordsIn(text) ==
    {k \in DOMAIN write_keywords : contains(Normalize(text), write_keywords[k])}

C4_PollCounts ==
    IsSet(execution_info) =>
        LET k == Cardinality(NonTerminalSeen)
            last == Max(StatusIdx)
        IN  /\ Cardinality(StatusIdx) = k + 1
            /\ Cardinality(CallsOf("sleep")) = k
            /\ calls[last].out = "ok"
            /\ Val(calls[last].res).State = "SUCCEEDED"
            /\ Val(execution_info) = Val(calls[last].res)
            /\ \A i \in StatusIdx \ {last} : i \in NonTerminalSeen

C4_Witness ==
    /\ IsSet(execution_info)
    /\ Cardinality(StatusIdx) = 3
    /\ Cardinality(CallsOf("sleep")) = 2
    /\ \A i \in NonTerminalSeen : Val(calls[i].res).State = "RUNNING"

\* C5: when the waiter observes FAILED or CANCELLED it polls no more and
\* fails with an error carrying the reason the service gave, or "Unknown"
\* when it gave none; no status record is returned.
C5_FailureCarriesReason ==
    \A i \in OkCalls("getStatus") :
        LET status == Val(calls[i].res)
        IN  status.State \in TerminalFailures =>
                /\ i = Len(calls)
                /\ Exited
                /\ execution_info = Unset
                /\ raised.type = "RuntimeError"
                /\ raised.arg[1] = status.State
                /\ raised.arg[2] = (IF status.StateChangeReason = Unset THEN "Unknown"
                                    ELSE status.StateChangeReason[1])
                /\ stderr = << <<"ERROR", raised>> >>

C5_Witness ==
    /\ raised = Exc("RuntimeError", <<"CANCELLED", "r1">>)
    /\ Cardinality(CallsOf("sleep")) > 0

\* the rows the service returned, page after page, without the header row
\* that leads the first page, each cell as text
RECURSIVE ServedRows(_)
ServedRows(n) ==
    IF n = 0 THEN <<>>
    ELSE LET c == calls[n]
             r == IF c.op = "fetchPage" /\ c.out = "ok" THEN Val(c.res).Rows ELSE <<>>
             isFirst == c.op = "fetchPage" /\ \A m \in 1..(n - 1) : calls[m].op # "fetchPage"
             data == IF isFirst THEN Tail(r) ELSE r
         IN  ServedRows(n - 1) \o
             [i \in DOMAIN data |->
                [j \in DOMAIN data[i] |-> IF data[i][j] = Unset THEN <<>> ELSE data[i][j][1]]]

RECURSIVE ServedCount(_)
ServedCount(n) ==
    IF n = 0 THEN 0
    ELSE ServedCount(n - 1) +
         (IF calls[n].op = "fetchPage" /\ calls[n].out = "ok"
          THEN Len(Val(calls[n].res).Rows) ELSE 0)

\* C6: the table fetch_results returns holds the rows of all pages in page
\* order and in the order of each page, without the header row of the first
\* page; their number is the sum of the pages' row counts minus one.
C6_AllPagesInOrder ==
    IsSet(table) =>
        /\ Val(table)[2] = ServedRows(Len(calls))
        /\ Len(Val(table)[2]) = ServedCount(Len(calls)) - 1
        /\ Val(table)[1] = Labels

C6_Witness ==
    /\ IsSet(table)
    /\ Cardinality(OkCalls("fetchPage")) = MaxPages
    /\ \A i \in OkCalls("fetchPage") : Len(data_rows(FALSE, Val(calls[i].res).Rows)) >= 1
    /\ Len(Val(table)[2]) >= MaxPages - 1

\* C7: after a submit, getStatus or fetchPage call returned an error, no
\* further call is made and the run has aborted with a non-zero status.
C7_NoRetry ==
    \A i \in ServiceCalls :
        calls[i].out # "ok" =>
            /\ i = Len(calls)
            /\ Exited
            /\ exit_code = Set(1)
            /\ raised.arg = <<calls[i].op>>

C7_Witness ==
    /\ Exited
    /\ calls # <<>>
    /\ calls[Len(calls)].op = "fetchPage"
    /\ calls[Len(calls)].out = "ClientError"
    /\ OkCalls("fetchPage") # {}

\* C8: the report is written only in runs where the waiter returned the
\* SUCCEEDED record and the last page fetched carried no further token, and
\* it is made of the complete table; no failed run writes a report.
C8_NoPartialOutput ==
    /\ (IsSet(report) \/ CallsOf("write") # {}) =>
            /\ IsSet(execution_info)
            /\ Val(execution_info).State = "SUCCEEDED"
            /\ OkCalls("fetchPage") # {}
            /\ Val(calls[Max(CallsOf("fetchPage"))].res).NextToken \in EndTokens
            /\ \A i \in DOMAIN calls : calls[i].out = "ok"
            /\ raised = NoExc
            /\ IsSet(report)
            /\ Val(report).head.count = ServedCount(Len(calls)) - 1
            /\ Val(report).body =
                   format_results(Labels, ServedRows(Len(calls)), Val(final_query),
                                  Val(execution_info)).body
    /\ (raised # NoExc \/ exit_code = Set(1)) =>
            /\ report = Unset
            /\ CallsOf("write") = {}

C8_Witness ==
    /\ IsSet(report)
    /\ Cardinality(OkCalls("fetchPage")) = 2
    /\ Val(report).head.count >= 2

\* C9: a run that completes exits 0 after writing the report; a run that
\* fails (missing query file, blocked write operation, missing credentials,
\* service call error, FAILED or CANCELLED execution) exits non-zero after
\* printing a diagnostic to the error stream.
C9_ExitStatus ==
    /\ Exited <=> IsSet(exit_code)
    /\ Exited =>
        \/ /\ exit_code = Set(0)
           /\ raised = NoExc
           /\ IsSet(report)
           /\ stderr = <<>>
        \/ /\ exit_code = Set(1)
           /\ raised.type \in {"FileNotFoundError", "ValueError", "NoCredentialsError",
                               "RuntimeError", "ClientError", "OtherError",
                               "IndexError"}
           /\ stderr # <<>>
           /\ \A i \in DOMAIN stderr : stderr[i][2] = raised
    /\ raised # NoExc => exit_code = Set(1)

C9_Witness ==
    /\ Exited
    /\ exit_code = Set(1)
    /\ raised.type = "NoCredentialsError"
    /\ Len(stderr) = 2

(***************************************************************************)
(* Properties of validate_read_only                                        *)
(***************************************************************************)
Prepared == pc # "prepare"
Rejected == raised.type = "ValueError"

\* the keywords as the error names them
KeywordName(k) == SubSeq(write_keywords[k], 1, Len(write_keywords[k]) - 1)

\* word stands at position i of text, in any letter case
StandsAt(text, i, word) ==
    /\ i + Len(word) - 1 <= Len(text)
    /\ \A j \in 1..Len(word) : UpperChar(text[i + j - 1]) = word[j]

\* position i of text lies in or behind a comment marker of its line
LineStart(text, i) == 1 + Max({0} \cup {j \in 1..(i - 1) : text[j] = "\n"})
Commented(text, i) ==
    \E j \in LineStart(text, i)..i :
        j < Len(text) /\ text[j] = "-" /\ text[j + 1] = "-"

\* some keyword occurs in text, in any letter case
HasKeyword(text) ==
    \E k \in DOMAIN write_keywords, i \in 1..Len(text) : StandsAt(text, i, KeywordName(k))

\* keyword k stands at i outside a comment, followed by a space and, on the
\* same line and outside any comment, by further text
LiveKeyword(text, k, i) ==
    LET e == i + Len(KeywordName(k))
    IN  /\ StandsAt(text, i, KeywordName(k))
        /\ ~Commented(text, i)
        /\ e <= Len(text)
        /\ text[e] = " "
        /\ \E m \in (e + 1)..Len(text) :
              /\ \A j \in e..m : text[j] # "\n"
              /\ ~IsSpace(text[m])
              /\ ~Commented(text, m)

PartName(part) ==
    IF part.kind = "named" THEN Tail(part.text)
    ELSE SubSeq(part.text, 3, Len(part.text) - 1)
IsPlaceholder(part) == part.kind \in {"named", "braced"}
Matched(part) == IsPlaceholder(part) /\ PartName(part) \in DOMAIN PARAMS

\* the pieces read as they were composed: no piece runs into the next one
WellSeparated ==
    \A i \in 1..(Len(parts) - 1) :
        LET c == parts[i + 1].text[1]
        IN  /\ parts[i].kind = "named" => ~IsIdChar(c)
            /\ (parts[i].kind = "lit" /\ parts[i].text = <<"$">>)
                  => ~(IsIdStart(c) \/ c \in {"$", "{"})

\* the template with every matched placeholder replaced by its value;
\* `escapes` is what an escape piece $$ becomes
Expected(escapes) ==
    Flatten([i \in DOMAIN parts |->
                IF Matched(parts[i]) THEN PARAMS[PartName(parts[i])]
                ELSE IF parts[i].kind = "escape" THEN escapes
                ELSE parts[i].text])

\* C10 as stated: substitute_params never fails, leaves placeholders without
\* a key unchanged, replaces each occurrence of a matched placeholder by its
\* value once, and changes no other text of the template.
C10_OnlyPlaceholdersChange ==
    (Prepared /\ WellSeparated) =>
        /\ IsSet(final_query)
        /\ Val(final_query) = Expected(<<"$", "$">>)

\* C10 as amended: substitute_params never fails, leaves placeholders
\* without a key unchanged, replaces each occurrence of a matched placeholder
\* by its value once (the value is not scanned again), and changes no other
\* text of the template except that each escape $$ becomes a single $.
C10_PlaceholdersAndEscapes ==
    (Prepared /\ WellSeparated) =>
        /\ IsSet(final_query)
        /\ Val(final_query) = Expected(<<"$">>)

C10_Witness ==
    /\ Prepared
    /\ WellSeparated
    /\ \E i, j \in DOMAIN parts : i # j /\ Matched(parts[i]) /\ Matched(parts[j])
    /\ \E i \in DOMAIN parts : IsPlaceholder(parts[i]) /\ ~Matched(parts[i])
    /\ \E n \in DOMAIN PARAMS : contains(PARAMS[n], <<"$">>)
    /\ Val(final_query) # QUERY

(***************************************************************************)
(* Further properties of validate_read_only                                *)
(***************************************************************************)
\* the places of text where a keyword stands, in any letter case
KeywordPlaces(text) ==
    {i \in 1..Len(text) : \E k \in DOMAIN write_keywords : StandsAt(text, i, KeywordName(k))}

\* C11: a keyword of the denylist that stands only behind a comment marker
\* (--) of its line does not make validate_read_only fail.
C11_CommentedKeywordPasses ==
    Prepared =>
        LET text == Val(final_query)
        IN  (\A i \in KeywordPlaces(text) : Commented(text, i)) =>
                (raised = NoExc /\ pc = "session")

C11_Witness ==
    /\ Prepared
    /\ raised = NoExc
    /\ LET text == Val(final_query)
       IN  /\ \A i \in KeywordPlaces(text) : Commented(text, i)
           /\ \E i \in KeywordPlaces(text) :
                 /\ StandsAt(text, i, KeywordName(4))
                 /\ i + 5 <= Len(text)
                 /\ text[i + 4] = " "
                 /\ text[i + 5] = "x"

\* C17: when several keywords of the denylist are found in a query, the
\* error names one keyword only, the first of them in the order of the list.
C17_FirstKeywordNamed ==
    (Prepared /\ Rejected) =>
        LET found == KeywordsIn(Val(final_query))
        IN  /\ found # {}
            /\ raised.arg = KeywordName(Min(found))
            /\ stderr = << <<"BLOCKED", Exc("ValueError", KeywordName(Min(found)))>> >>
            /\ \A k \in found \ {Min(found)} : raised.arg # KeywordName(k)

C17_Witness ==
    /\ Prepared
    /\ Rejected
    /\ KeywordsIn(Val(final_query)) = {1, 4}
    /\ StandsAt(Val(final_query), 1, KeywordName(4))
    /\ raised.arg = KeywordName(1)

(***************************************************************************)
(* Further properties of a run of main                                     *)
(***************************************************************************)
\* C12: every row of the table fetch_results returns has exactly
\* len(columns) cells, a cell the service sent without value being the
\* empty text.
C12_RowsAlignWithColumns ==
    /\ IsSet(table) =>
          \A r \in DOMAIN Val(table)[2] :
              /\ Len(Val(table)[2][r]) = Len(Val(table)[1])
              /\ \A j \in DOMAIN Val(table)[2][r] : Val(table)[2][r][j] \in Seq(STRING)
    /\ (pc = "fetch" /\ ~first_page) =>
          \A r \in DOMAIN rows : Len(rows[r]) = Len(columns)

C12_Witness ==
    /\ IsSet(table)
    /\ Cardinality(OkCalls("fetchPage")) = 2
    /\ \E r \in DOMAIN Val(table)[2] : Val(table)[2][r] = << <<"1">>, <<>> >>
    /\ \E i \in OkCalls("fetchPage") :
          /\ i # Min(OkCalls("fetchPage"))
          /\ Row1 \in Range(Val(calls[i].res).Rows)

\* place of an operation in the order of the protocol
Rank(op) == IF op = "submit" THEN 1 ELSE IF op = "getStatus" THEN 2 ELSE 3
TerminalSeen ==
    {i \in OkCalls("getStatus") : Val(calls[i].res).State \in {"SUCCEEDED", "FAILED", "CANCELLED"}}

\* the order of the calls made so far, and the handle they use
CallsInOrder ==
    /\ Cardinality(CallsOf("submit")) <= 1
    /\ \A i, j \in ServiceCalls : i < j => Rank(calls[i].op) <= Rank(calls[j].op)
    /\ \A i \in CallsOf("fetchPage") :
          \E j \in OkCalls("getStatus") : j < i /\ Val(calls[j].res).State = "SUCCEEDED"
    /\ \A i \in TerminalSeen : \A j \in CallsOf("getStatus") : j <= i
    /\ \A i \in CallsOf("getStatus") \cup CallsOf("fetchPage") :
          \E j \in OkCalls("submit") : j < i /\ calls[i].arg[1] = calls[j].res[1]

\* one submit, one or more getStatus, one or more fetchPage
AllCallsMade ==
    /\ Cardinality(CallsOf("submit")) = 1
    /\ CallsOf("getStatus") # {}
    /\ CallsOf("fetchPage") # {}

\* C14 as stated: in every run the service calls are exactly one submit,
\* then one or more getStatus, then one or more fetchPage, the first
\* fetchPage after a SUCCEEDED status, no getStatus after a terminal state,
\* and every getStatus and fetchPage with the handle submit returned.
C14_EveryRunMakesAllCalls ==
    Exited => (AllCallsMade /\ CallsInOrder)

\* C14 as amended: in every run the service calls made are, in this order,
\* at most one submit, then getStatus calls, then fetchPage calls, the first
\* fetchPage after a SUCCEEDED status, no getStatus after a terminal state,
\* every getStatus and fetchPage with the handle submit returned; a run that
\* completes has made exactly one submit, one or more getStatus and one or
\* more fetchPage calls, a run that fails stops before the rest.
C14_CallsInOrder ==
    /\ CallsInOrder
    /\ exit_code = Set(0) => AllCallsMade
    /\ (Exited /\ ~AllCallsMade) => exit_code = Set(1)

C14_Witness ==
    /\ exit_code = Set(0)
    /\ execution_id = Set("e2")
    /\ Cardinality(CallsOf("getStatus")) = 3
    /\ Cardinality(CallsOf("fetchPage")) = 2

\* the waiter is running
Waiting == pc \in {"poll", "sleep"}

\* C15 as stated: wait_for_query has no timeout: it ends if and only if the
\* service has reported SUCCEEDED, FAILED or CANCELLED; any other state is
\* followed by one sleep and another poll.
C15_EndsOnlyOnTerminalStatus ==
    /\ (IsSet(execution_id) /\ ~Waiting) <=> TerminalSeen # {}
    /\ \A i \in NonTerminalSeen :
          /\ i < Len(calls) => calls[i + 1].op = "sleep"
          /\ i + 1 < Len(calls) => calls[i + 2].op = "getStatus"

\* C15 as amended: wait_for_query has no timeout: it ends if and only if the
\* service has reported SUCCEEDED, FAILED or CANCELLED or a getStatus call
\* itself has failed; any other state, QUEUED, RUNNING or something else, is
\* followed by one sleep and another poll, however many were reported before.
C15_NoTimeout ==
    /\ \A i \in NonTerminalSeen :
          /\ i = Len(calls) => pc = "sleep"
          /\ i < Len(calls) => calls[i + 1].op = "sleep"
          /\ i + 1 = Len(calls) => pc = "poll"
          /\ i + 1 < Len(calls) => calls[i + 2].op = "getStatus"
    /\ (IsSet(execution_id) /\ ~Waiting) <=>
          \E i \in CallsOf("getStatus") : i \in TerminalSeen \/ calls[i].out # "ok"
    /\ (IsSet(execution_id) /\ CallsOf("getStatus") \subseteq NonTerminalSeen) =>
          (Waiting /\ exit_code = Unset)

C15_Witness ==
    /\ pc = "poll"
    /\ Cardinality(NonTerminalSeen) = MaxPolls
    /\ \E i \in NonTerminalSeen : Val(calls[i].res).State = "PAUSED"
    /\ \E i \in NonTerminalSeen : Val(calls[i].res).State = "QUEUED"

\* the fetchPage call before call i, 0 when i is the first
PrevFetch(i) == Max({0} \cup {j \in CallsOf("fetchPage") : j < i})

\* C16: the first fetchPage call carries no token, each later one the token
\* of the response before it; the loop goes on while a response carries a
\* token and ends at the first that carries none, so there are as many calls
\* as pages served.
C16_TokensChained ==
    /\ \A i \in CallsOf("fetchPage") :
          IF PrevFetch(i) = 0
          THEN calls[i].arg = <<Val(execution_id)>>
          ELSE /\ calls[PrevFetch(i)].out = "ok"
               /\ Val(calls[PrevFetch(i)].res).NextToken \notin EndTokens
               /\ calls[i].arg = <<Val(execution_id), Val(calls[PrevFetch(i)].res).NextToken>>
    /\ \A i \in OkCalls("fetchPage") :
          i = Max(CallsOf("fetchPage")) =>
              IF Val(calls[i].res).NextToken \in EndTokens
              THEN pc # "fetch" /\ IsSet(table)
              ELSE pc = "fetch" /\ ~IsSet(table)
    /\ IsSet(table) =>
          Cardinality(CallsOf("fetchPage")) = Cardinality(OkCalls("fetchPage"))

C16_Witness ==
    /\ IsSet(table)
    /\ Cardinality(CallsOf("fetchPage")) = 2
    /\ calls[Max(CallsOf("fetchPage"))].arg = <<"e1", "t1">>
    /\ Val(calls[Max(CallsOf("fetchPage"))].res).NextToken = ""

(***************************************************************************)
(* C13: the widths and lines of the table                                  *)
(***************************************************************************)
\* the width the claim gives column i: the longest of its label and its
\* cells, and no more than the cap
FieldWidth(cols, rws, i) ==
    Min({WidthCap, Max({Len(cols[i])} \cup {Len(rws[r][i]) : r \in DOMAIN rws})})

\* where field i of a line begins, the fields before it and their
\* separators counted
RECURSIVE FieldStart(_, _)
FieldStart(w, i) ==
    IF i = 1 THEN 1 ELSE FieldStart(w, i - 1) + w[i - 1] + Len(ColumnSep)

\* the line is the texts, each in exactly its width (cut to it, filled up
\* with spaces on the right), with ' | ' between neighbours
LineInWidths(line, texts, w) ==
    /\ Len(texts) = Len(w)
    /\ Len(line) = FieldStart(w, Len(w)) + w[Len(w)] - 1
    /\ \A i \in DOMAIN w :
          /\ \A p \in 1..w[i] :
                line[FieldStart(w, i) + p - 1] =
                    IF p <= Len(texts[i]) THEN texts[i][p] ELSE " "
          /\ i > 1 => SubSeq(line, FieldStart(w, i) - Len(ColumnSep),
                             FieldStart(w, i) - 1) = ColumnSep

\* C13: for a table with at least one row, the width of a column is the
\* longest of its label and its cells, capped at 200; the header and every
\* data row are their fields in exactly these widths joined by ' | ', so all
\* of them have the same rendered length.
C13_FieldsHaveColumnWidth ==
    (IsSet(report) /\ IsSet(table) /\ Val(table)[2] # <<>>) =>
        LET cols == Val(table)[1]
            rws == Val(table)[2]
            body == Val(report).body
            w == [i \in DOMAIN cols |-> FieldWidth(cols, rws, i)]
        IN  /\ Len(body) = Len(rws) + 2
            /\ LineInWidths(body[1], cols, w)
            /\ \A r \in DOMAIN rws : LineInWidths(body[r + 2], rws[r], w)
            /\ \A r \in DOMAIN rws : Len(body[r + 2]) = Len(body[1])

\* C13 without the header of a label longer than the cap: every data row, and
\* a header whose labels are within the cap, is in the widths of C13
C13_RowsHaveColumnWidth ==
    (IsSet(report) /\ IsSet(table) /\ Val(table)[2] # <<>>) =>
        LET cols == Val(table)[1]
            rws == Val(table)[2]
            body == Val(report).body
            w == [i \in DOMAIN cols |-> FieldWidth(cols, rws, i)]
        IN  /\ Len(body) = Len(rws) + 2
            /\ \A r \in DOMAIN rws : LineInWidths(body[r + 2], rws[r], w)
            /\ ((\A i \in DOMAIN cols : Len(cols[i]) <= WidthCap) =>
                    LineInWidths(body[1], cols, w))

====
